---------------------------- MODULE Spec2Model ----------------------------
(***************************************************************************)
(* Fixed-size cropper: the image session (cropper.py) and the video        *)
(* session (video_cropper.py).  One window object holds the whole state;   *)
(* every UI handler is one action.  The video commit is split at the       *)
(* blocking call to the external tool, which is another process.           *)
(*                                                                         *)
(* Positions are QPointF values; they are kept in units of 1/Scale pixel,  *)
(* so that int() has something to truncate.  Sizes are in pixels.          *)
(***************************************************************************)
EXTENDS Integers, Sequences, FiniteSets, TLC

VARIABLES
    app,      \* which program was started: "image" or "video"
    win,      \* the window object: path, pixmap_item, crop_item, current_crop_size, scene
    files,    \* the file system: path -> content, for the paths that exist
    pc,       \* position of overwrite_video: "idle", "running" (in subprocess.run), "returned"
    job,      \* locals of the overwrite_video call in progress
    hist,     \* what the last handler did (its inputs and locals)
    crashed   \* the process was ended by an exception no handler caught

vars == <<app, win, files, pc, job, hist, crashed>>

-----------------------------------------------------------------------------
(* Bounds of the model *)

\* positions are multiples of 1/Scale pixel
Scale == 2

-----------------------------------------------------------------------------
(* Program constants *)

crop_sizes ==
    << <<512, 512>>, <<768, 768>>, <<1024, 1024>>, <<720, 1280>>, <<1280, 720>> >>

\* the set of extensions of get_next_file
extensions ==
    { <<".", "m", "p", "4">>, <<".", "m", "k", "v">>, <<".", "a", "v", "i">>,
      <<".", "m", "o", "v">>, <<".", "w", "e", "b", "m">> }

\* the suffix of temp_output
temp_suffix ==
    <<"_", "t", "e", "m", "p", "_", "c", "r", "o", "p", ".", "m", "p", "4">>

-----------------------------------------------------------------------------
(* Values *)

\* Python's None for an item attribute
NoItem == [st |-> "none"]

\* Python's None for a path attribute or a returned path (falsy, like "")
NoPath == << >>

\* pixel sizes are in pixels, positions in 1/Scale pixel
Px(n) == n * Scale

\* file contents: a decodable picture or video of w x h pixels, which is the
\* rectangle at (left, upper) of what the file held before it was last written;
\* or bytes no decoder reads
Original(W, H) == [kind |-> "media", w |-> W, h |-> H, left |-> 0, upper |-> 0]
Cropped(c, x, y, cw, ch) == [kind |-> "media", w |-> cw, h |-> ch, left |-> x, upper |-> y]
Undecodable == [kind |-> "undecodable"]
Truncated == [kind |-> "truncated"]

Exists(fs, p) == p \in DOMAIN fs
Decodable(fs, p) == Exists(fs, p) /\ fs[p].kind = "media"

\* fs with path p holding content c (created or overwritten)
WriteFile(fs, p, c) == [q \in (DOMAIN fs) \cup {p} |-> IF q = p THEN c ELSE fs[q]]
\* fs without path p
RemoveFile(fs, p) == [q \in (DOMAIN fs) \ {p} |-> fs[q]]

-----------------------------------------------------------------------------
(* Strings: a str is the tuple of its characters *)

\* the characters in use, in code point order
Alphabet ==
    <<".", "/", "4", "A", "B", "C", "I", "K", "M", "O", "P", "T", "V", "X", "_",
      "a", "b", "c", "e", "i", "k", "m", "o", "p", "r", "t", "v", "w", "x">>

\* the rank of ord(c) among the characters in use
Ord(c) == CHOOSE i \in 1..Len(Alphabet) : Alphabet[i] = c

\* str.lower() on one character
LowerChar(c) ==
    CASE c = "A" -> "a" [] c = "B" -> "b" [] c = "C" -> "c" [] c = "I" -> "i"
      [] c = "K" -> "k" [] c = "M" -> "m" [] c = "O" -> "o" [] c = "P" -> "p"
      [] c = "T" -> "t" [] c = "V" -> "v" [] c = "X" -> "x" [] OTHER -> c

\* str.lower()
Lower(s) == [i \in 1..Len(s) |-> LowerChar(s[i])]

\* s < t for two str: at the first difference the smaller code point, else the shorter
StrLess(s, t) ==
    \E k \in 1..(Len(t)) :
        /\ \A i \in 1..(k - 1) : i <= Len(s) /\ s[i] = t[i]
        /\ \/ k = Len(s) + 1
           \/ k <= Len(s) /\ Ord(s[k]) < Ord(t[k])

\* s.rfind(c), counted from 1; 0 when c is not in s
RFind(s, c) ==
    IF \E i \in 1..Len(s) : s[i] = c
    THEN CHOOSE i \in 1..Len(s) : s[i] = c /\ \A j \in (i + 1)..Len(s) : s[j] # c
    ELSE 0

\* os.path.dirname (posix): the head before the last "/", trailing "/" stripped
dirname(p) ==
    LET i == RFind(p, "/")
        head == SubSeq(p, 1, i)
    IN  IF head # << >> /\ \E j \in 1..Len(head) : head[j] # "/"
        THEN SubSeq(head, 1, CHOOSE n \in 1..Len(head) :
                                  head[n] # "/" /\ \A j \in (n + 1)..Len(head) : head[j] = "/")
        ELSE head

\* os.path.basename (posix): the tail after the last "/"
basename(p) == SubSeq(p, RFind(p, "/") + 1, Len(p))

\* os.path.join of a directory and a name without "/"
join(d, n) ==
    IF d = << >> THEN n
    ELSE IF d[Len(d)] = "/" THEN d \o n
    ELSE d \o <<"/">> \o n

\* os.path.splitext(f)[1] for a name without "/": from the last dot, unless
\* only dots precede it
splitext_ext(f) ==
    LET dot == RFind(f, ".")
    IN  IF dot > 0 /\ \E i \in 1..(dot - 1) : f[i] # "."
        THEN SubSeq(f, dot, Len(f))
        ELSE << >>

\* sorted(names): ascending by StrLess
RECURSIVE sorted(_)
sorted(names) ==
    IF names = {} THEN << >>
    ELSE LET least == CHOOSE n \in names : \A m \in names \ {n} : StrLess(n, m)
         IN  <<least>> \o sorted(names \ {least})

\* os.listdir(directory): the names of the entries of the directory
listdir(fs, directory) ==
    {basename(p) : p \in {q \in DOMAIN fs : dirname(q) = directory}}

\* list.index(x) for x in the list
IndexOf(seq, x) == CHOOSE i \in 1..Len(seq) : seq[i] = x /\ \A j \in 1..(i - 1) : seq[j] # x

\* the list comprehension without .lower()
video_files_cased(fs, directory) ==
    SelectSeq(sorted(listdir(fs, directory)), LAMBDA f : splitext_ext(f) \in extensions)

\* the list comprehension of get_next_file: the sorted names with a video extension
video_files(fs, directory) ==
    SelectSeq(sorted(listdir(fs, directory)),
              LAMBDA f : Lower(splitext_ext(f)) \in extensions)

\* VideoCropper.get_next_file; listing_raises: os.listdir raises OSError
get_next_file(video_path, fs, listing_raises) ==
    IF video_path = NoPath THEN NoPath
    ELSE LET directory == dirname(video_path)
             filename == basename(video_path)
         IN  IF listing_raises THEN NoPath
             ELSE LET flist == video_files(fs, directory)
                  IN  IF ~(\E i \in 1..Len(flist) : flist[i] = filename) THEN NoPath
                      ELSE LET current_index == IndexOf(flist, filename)
                           IN  IF current_index + 1 <= Len(flist)
                               THEN join(directory, flist[current_index + 1])
                               ELSE NoPath

-----------------------------------------------------------------------------
(* The crop box *)

\* int() replaced by rounding up
int_ceil(v) == (v + Scale - 1) \div Scale

\* int() of a position: truncation toward zero
int(v) == IF v >= 0 THEN v \div Scale ELSE -((-v) \div Scale)

\* CropBox.__init__: rect (0, 0, w, h), the image rect, position (0, 0), in no scene
CropBox(rect, image_rect) ==
    [st |-> "live", rect |-> rect, image_rect |-> image_rect, pos |-> <<0, 0>>,
     in_scene |-> FALSE]

\* itemChange without its two lower clamps
itemChange_no_floor(item, value) ==
    IF item.in_scene
    THEN LET x1 == IF value[1] + Px(item.rect[1]) > Px(item.image_rect[1])
                   THEN Px(item.image_rect[1]) - Px(item.rect[1]) ELSE value[1]
             y1 == IF value[2] + Px(item.rect[2]) > Px(item.image_rect[2])
                   THEN Px(item.image_rect[2]) - Px(item.rect[2]) ELSE value[2]
         IN  <<x1, y1>>
    ELSE value

\* itemChange with the upper clamps taken one pixel early
itemChange_early(item, value) ==
    IF item.in_scene
    THEN LET x0 == IF value[1] < 0 THEN 0 ELSE value[1]
             y0 == IF value[2] < 0 THEN 0 ELSE value[2]
             x1 == IF x0 + Px(item.rect[1]) >= Px(item.image_rect[1])
                   THEN Px(item.image_rect[1]) - Px(item.rect[1]) - Px(1) ELSE x0
             y1 == IF y0 + Px(item.rect[2]) >= Px(item.image_rect[2])
                   THEN Px(item.image_rect[2]) - Px(item.rect[2]) - Px(1) ELSE y0
         IN  <<x1, y1>>
    ELSE value

\* CropBox.itemChange for change = ItemPositionChange: the position the item takes
itemChange(item, value) ==
    IF item.in_scene
    THEN LET x0 == IF value[1] < 0 THEN 0 ELSE value[1]
             y0 == IF value[2] < 0 THEN 0 ELSE value[2]
             x1 == IF x0 + Px(item.rect[1]) > Px(item.image_rect[1])
                   THEN Px(item.image_rect[1]) - Px(item.rect[1]) ELSE x0
             y1 == IF y0 + Px(item.rect[2]) > Px(item.image_rect[2])
                   THEN Px(item.image_rect[2]) - Px(item.rect[2]) ELSE y0
         IN  <<x1, y1>>
    ELSE value

\* QGraphicsItem.setPos on an item that sends geometry changes
setPos(item, value) == [item EXCEPT !.pos = itemChange(item, value)]

-----------------------------------------------------------------------------
(* The window *)

EmptyScene == [pixmaps |-> 0, crops |-> 0]

\* __init__ of ImageCropper and of VideoCropper
NewWindow ==
    [path |-> NoPath, pixmap_item |-> NoItem, crop_item |-> NoItem,
     current_crop_size |-> crop_sizes[1], scene |-> EmptyScene]

\* add_crop_box without `if not self.pixmap_item: return`, a missing surface taken as empty
add_crop_box_unguarded(w) ==
    LET removed == IF w.crop_item # NoItem
                   THEN [w.scene EXCEPT !.crops = @ - 1]
                   ELSE w.scene
        rect == w.current_crop_size
        image_rect == IF w.pixmap_item = NoItem THEN <<0, 0>>
                      ELSE <<w.pixmap_item.w, w.pixmap_item.h>>
        placed == setPos(CropBox(rect, image_rect), <<0, 0>>)
    IN  [w EXCEPT !.crop_item = [placed EXCEPT !.in_scene = TRUE],
                  !.scene = [removed EXCEPT !.crops = @ + 1]]

\* add_crop_box without the removeItem of the old box
add_crop_box_no_remove(w) ==
    IF w.pixmap_item = NoItem THEN w
    ELSE LET rect == w.current_crop_size
             image_rect == <<w.pixmap_item.w, w.pixmap_item.h>>
             placed == setPos(CropBox(rect, image_rect), <<0, 0>>)
         IN  [w EXCEPT !.crop_item = [placed EXCEPT !.in_scene = TRUE],
                       !.scene = [w.scene EXCEPT !.crops = @ + 1]]

\* add_crop_box, for a pixmap item that is None or alive
add_crop_box(w) ==
    IF w.pixmap_item = NoItem THEN w
    ELSE LET removed == IF w.crop_item # NoItem
                        THEN [w.scene EXCEPT !.crops = @ - 1]
                        ELSE w.scene
             rect == w.current_crop_size
             image_rect == <<w.pixmap_item.w, w.pixmap_item.h>>
             placed == setPos(CropBox(rect, image_rect), <<0, 0>>)
         IN  [w EXCEPT !.crop_item = [placed EXCEPT !.in_scene = TRUE],
                       !.scene = [removed EXCEPT !.crops = @ + 1]]

\* scene.clear() taken as leaving the pixmap item alive
Cleared_alive(item) == item

\* the pixmap item after scene.clear(): the scene deleted it, the attribute still names it
Cleared(item) == IF item = NoItem THEN NoItem ELSE [item EXCEPT !.st = "deleted"]

\* ImageCropper.load_image(file_path) for a chosen path: an unreadable file gives a null pixmap
load_image(w, file_path, fs) ==
    LET size == IF Decodable(fs, file_path)
                THEN <<fs[file_path].w, fs[file_path].h>> ELSE <<0, 0>>
    IN  add_crop_box([w EXCEPT !.path = file_path,
                               !.crop_item = NoItem,
                               !.pixmap_item = [st |-> "live", w |-> size[1], h |-> size[2]],
                               !.scene = [pixmaps |-> 1, crops |-> 0]])

\* VideoCropper.load_video(file_path) for a chosen path
load_video(w, file_path, fs) ==
    LET cleared == [w EXCEPT !.path = file_path,
                             !.crop_item = NoItem,
                             !.pixmap_item = Cleared(w.pixmap_item),
                             !.scene = EmptyScene]
    IN  IF ~Decodable(fs, file_path) THEN cleared
        ELSE add_crop_box([cleared EXCEPT
                 !.pixmap_item = [st |-> "live", w |-> fs[file_path].w, h |-> fs[file_path].h],
                 !.scene = [pixmaps |-> 1, crops |-> 0]])

-----------------------------------------------------------------------------
(* The environment: files on disk, what the operator picks, where the mouse goes *)

ImageDir == <<"/", "i">>
VideoDir == <<"/", "v">>

p_bmp == join(ImageDir, <<"p", ".", "b", "m", "p">>)
x_bmp == join(ImageDir, <<"x", ".", "b", "m", "p">>)
a_mp4 == join(VideoDir, <<"a", ".", "m", "p", "4">>)
b_txt == join(VideoDir, <<"b", ".", "t", "x", "t">>)
c_MKV == join(VideoDir, <<"c", ".", "M", "K", "V">>)

\* the sizes of the media on disk at the start: one where two presets fit, one where
\* none fits (a preset fits exactly once a file was cropped to it)
Surfaces == { <<1000, 800>>, <<400, 300>> }

\* the paths the file dialog can return
DialogPaths == IF app = "image" THEN {p_bmp, x_bmp} ELSE {a_mp4, b_txt, c_MKV}

\* a coordinate the view proposes while the box is dragged: far left and between two
\* pixels, inside and between two pixels, inside and on a pixel, far right
DragCoords == { -Px(1500) - 1, Px(100) + 1, Px(488), Px(1500) }

\* the ids of the radio buttons
SizeIds == 0..(Len(crop_sizes) - 1)

-----------------------------------------------------------------------------
(* Handlers common to both programs *)

Idle == pc = "idle" /\ ~crashed

\* "Open Image" / "Open Video": the dialog returns a path, or "" when cancelled
Open(file_path) ==
    /\ Idle
    /\ win' = IF file_path = NoPath THEN win
              ELSE IF app = "image" THEN load_image(win, file_path, files)
              ELSE load_video(win, file_path, files)
    /\ hist' = [op |-> "open", file_path |-> file_path]
    /\ UNCHANGED <<app, files, pc, job, crashed>>

\* change_crop_size(size_id), a radio button was clicked.  A pixmap item the scene
\* deleted is still truthy; its boundingRect() raises, in a slot, where nothing
\* catches it: the handler stops there and the process ends or goes on
change_crop_size(size_id) ==
    /\ Idle
    /\ LET w == [win EXCEPT !.current_crop_size = crop_sizes[size_id + 1]]
       IN  IF win.pixmap_item.st = "deleted"
           THEN /\ win' = w
                /\ crashed' \in BOOLEAN
           ELSE /\ win' = add_crop_box(w)
                /\ crashed' = crashed
    /\ hist' = [op |-> "change_crop_size", size_id |-> size_id]
    /\ UNCHANGED <<app, files, pc, job>>

\* the view moves the box while the mouse drags it: setPos(value) on the item in the scene
Drag(value) ==
    /\ Idle
    /\ win.crop_item # NoItem
    /\ win' = [win EXCEPT !.crop_item = setPos(win.crop_item, value)]
    /\ hist' = [op |-> "drag", value |-> value]
    /\ UNCHANGED <<app, files, pc, job, crashed>>

-----------------------------------------------------------------------------
(* cropper.py: "Overwrite Original" *)

\* the box tuple taken as (left, upper, width, height)
crop_box_xywh(x, y, w, h) == <<x, y, w, h>>

\* the box tuple (left, upper, right, lower) of overwrite_image
crop_box(x, y, w, h) == <<x, y, x + w, y + h>>

\* Image.crop(box) with the right and lower edges taken as inside the box
image_crop_inclusive(img, box) ==
    Cropped(img, box[1], box[2], box[3] - box[1] + 1, box[4] - box[2] + 1)

\* Image.crop(box): the picture of the box's size taken at the box's corner
image_crop(img, box) == Cropped(img, box[1], box[2], box[3] - box[1], box[4] - box[2])

\* ImageCropper.overwrite_image.  confirm: the answer to the question box.
\* save: what cropped_img.save(path) does: "ok"; "refused", it raises before it opens
\* the path; "broken", it raises after it opened the path for writing
overwrite_image(confirm, save) ==
    /\ Idle
    /\ app = "image"
    /\ IF win.path = NoPath \/ win.crop_item = NoItem \/ ~confirm
       THEN /\ hist' = [op |-> "overwrite_image", ran |-> FALSE]
            /\ UNCHANGED <<win, files>>
       ELSE LET pos == win.crop_item.pos
                x == int(pos[1])
                y == int(pos[2])
                w == win.current_crop_size[1]
                h == win.current_crop_size[2]
                box == crop_box(x, y, w, h)
                opened == Decodable(files, win.path)
                saved == opened /\ save = "ok"
                after == IF saved THEN WriteFile(files, win.path, image_crop(files[win.path], box))
                         ELSE IF opened /\ save = "broken"
                         THEN WriteFile(files, win.path, Truncated)
                         ELSE files
            IN  /\ files' = after
                /\ win' = IF saved THEN load_image(win, win.path, after) ELSE win
                /\ hist' = [op |-> "overwrite_image", ran |-> TRUE, pos |-> pos,
                            box |-> box, ok |-> saved,
                            surface |-> win.crop_item.image_rect]
    /\ UNCHANGED <<app, pc, job, crashed>>

-----------------------------------------------------------------------------
(* video_cropper.py: "Overwrite Original" *)

NoJob == [button |-> "none"]

\* the argument list of ffmpeg: -y -i <input> -vf crop=w:h:x:y -c:a copy <output>
ffmpeg_cmd(video_path, x, y, w, h, temp_output) ==
    [tool |-> "ffmpeg", y |-> TRUE, i |-> video_path, vf |-> <<"crop", w, h, x, y>>,
     ca |-> "copy", output |-> temp_output]

\* ffmpeg told to write over its input
temp_output_in_place(video_path) == video_path

\* temp_output of overwrite_video
temp_output(video_path) == video_path \o temp_suffix

\* overwrite_video up to subprocess.run.  button: the button of the message box
overwrite_video(button) ==
    /\ Idle
    /\ app = "video"
    /\ IF win.path = NoPath \/ win.crop_item = NoItem \/ button = "cancel"
       THEN /\ hist' = [op |-> "overwrite_video", ran |-> FALSE]
            /\ UNCHANGED <<pc, job>>
       ELSE LET pos == win.crop_item.pos
                x == int(pos[1])
                y == int(pos[2])
                w == win.current_crop_size[1]
                h == win.current_crop_size[2]
                temp == temp_output(win.path)
            IN  /\ job' = [button |-> button, temp_output |-> temp,
                           cmd |-> ffmpeg_cmd(win.path, x, y, w, h, temp),
                           returncode |-> -1, before |-> files[win.path]]
                /\ pc' = "running"
                /\ hist' = [op |-> "overwrite_video", ran |-> TRUE, pos |-> pos]
    /\ UNCHANGED <<app, win, files, crashed>>

\* what a finished overwrite_video call leaves in hist: its button, its command, the
\* exit code, whether ffmpeg left a file at the temporary path, how the call ended
\* ("success", "failed", "raised") and the next file it found
Done(call, result, next_file) ==
    [op |-> "overwrite_video_done", button |-> call.button, cmd |-> call.cmd,
     returncode |-> call.returncode, had_temp |-> Exists(files, call.temp_output),
     result |-> result, next_file |-> next_file]

\* what ffmpeg writes for a command when it succeeds: the crop of its input
ffmpeg_output(fs, cmd) == Cropped(fs[cmd.i], cmd.vf[4], cmd.vf[5], cmd.vf[2], cmd.vf[3])

\* ffmpeg can succeed: it decodes its input and the crop is not larger than the frame
ffmpeg_can_succeed(fs, cmd) ==
    /\ Decodable(fs, cmd.i)
    /\ cmd.vf[2] <= fs[cmd.i].w
    /\ cmd.vf[3] <= fs[cmd.i].h

\* subprocess.run returns: ffmpeg exited.  With code 0 it has written its output;
\* with another code it has written nothing, or a part of the output
ffmpeg_exits(returncode, partial) ==
    /\ pc = "running"
    /\ IF returncode = 0
       THEN /\ ffmpeg_can_succeed(files, job.cmd)
            /\ ~partial
            /\ files' = WriteFile(files, job.cmd.output, ffmpeg_output(files, job.cmd))
       ELSE files' = IF partial THEN WriteFile(files, job.cmd.output, Truncated) ELSE files
    /\ job' = [job EXCEPT !.returncode = returncode]
    /\ pc' = "returned"
    /\ hist' = [op |-> "ffmpeg", returncode |-> returncode]
    /\ UNCHANGED <<app, win, crashed>>

\* subprocess.run raises (no ffmpeg to run): the except branch, and the handler returns
ffmpeg_missing ==
    /\ pc = "running"
    /\ pc' = "idle"
    /\ job' = NoJob
    /\ hist' = Done(job, "raised", NoPath)
    /\ UNCHANGED <<app, win, files, crashed>>

\* a copy in place of the move
move_copy(fs, src, dst) == WriteFile(fs, dst, fs[src])

\* shutil.move(src, dst) within one directory: a rename over dst
move(fs, src, dst) == RemoveFile(WriteFile(fs, dst, fs[src]), src)

\* the else branch of overwrite_video without the os.remove
remove_temp_never(fs, temp) == fs

\* the else branch of overwrite_video: os.remove(temp_output) if it exists
remove_temp(fs, temp) == IF Exists(fs, temp) THEN RemoveFile(fs, temp) ELSE fs

\* overwrite_video after subprocess.run returned, with a reload of the video in the
\* else branch too
overwrite_video_returns_reload(move_raises, listing_raises) ==
    /\ pc = "returned"
    /\ IF job.returncode = 0
       THEN IF move_raises
            THEN /\ hist' = Done(job, "raised", NoPath)
                 /\ UNCHANGED <<win, files>>
            ELSE LET moved == move(files, job.temp_output, win.path)
                     next_file == IF job.button = "overwrite_next"
                                  THEN get_next_file(win.path, moved, listing_raises)
                                  ELSE NoPath
                 IN  /\ files' = moved
                     /\ win' = IF next_file # NoPath
                               THEN load_video(win, next_file, moved)
                               ELSE load_video(win, win.path, moved)
                     /\ hist' = Done(job, "success", next_file)
       ELSE /\ files' = remove_temp(files, job.temp_output)
            /\ hist' = Done(job, "failed", NoPath)
            /\ win' = load_video(win, win.path, files')
    /\ pc' = "idle"
    /\ job' = NoJob
    /\ UNCHANGED <<app, crashed>>

\* overwrite_video after subprocess.run returned, with get_next_file called before
\* the move
overwrite_video_returns_lookup_first(move_raises, listing_raises) ==
    /\ pc = "returned"
    /\ IF job.returncode = 0
       THEN IF move_raises
            THEN /\ hist' = Done(job, "raised", NoPath)
                 /\ UNCHANGED <<win, files>>
            ELSE LET next_file == IF job.button = "overwrite_next"
                                  THEN get_next_file(win.path, files, listing_raises)
                                  ELSE NoPath
                     moved == move(files, job.temp_output, win.path)
                 IN  /\ files' = moved
                     /\ win' = IF next_file # NoPath
                               THEN load_video(win, next_file, moved)
                               ELSE load_video(win, win.path, moved)
                     /\ hist' = Done(job, "success", next_file)
       ELSE /\ files' = remove_temp(files, job.temp_output)
            /\ hist' = Done(job, "failed", NoPath)
            /\ UNCHANGED win
    /\ pc' = "idle"
    /\ job' = NoJob
    /\ UNCHANGED <<app, crashed>>

\* overwrite_video after subprocess.run returned.  move_raises: shutil.move raises;
\* listing_raises: os.listdir raises
overwrite_video_returns(move_raises, listing_raises) ==
    /\ pc = "returned"
    /\ IF job.returncode = 0
       THEN IF move_raises
            THEN /\ hist' = Done(job, "raised", NoPath)
                 /\ UNCHANGED <<win, files>>
            ELSE LET moved == move(files, job.temp_output, win.path)
                     next_file == IF job.button = "overwrite_next"
                                  THEN get_next_file(win.path, moved, listing_raises)
                                  ELSE NoPath
                 IN  /\ files' = moved
                     /\ win' = IF next_file # NoPath
                               THEN load_video(win, next_file, moved)
                               ELSE load_video(win, win.path, moved)
                     /\ hist' = Done(job, "success", next_file)
       ELSE /\ files' = remove_temp(files, job.temp_output)
            /\ hist' = Done(job, "failed", NoPath)
            /\ UNCHANGED win
    /\ pc' = "idle"
    /\ job' = NoJob
    /\ UNCHANGED <<app, crashed>>

-----------------------------------------------------------------------------
(* The specification *)

Init ==
    /\ app \in {"image", "video"}
    /\ win = NewWindow
    /\ \E s1 \in Surfaces, stale \in BOOLEAN :
          files = IF app = "image"
                  THEN (p_bmp :> Original(s1[1], s1[2])) @@ (x_bmp :> Undecodable)
                  ELSE LET fs == (a_mp4 :> Original(s1[1], s1[2])) @@ (b_txt :> Undecodable)
                                 @@ (c_MKV :> Original(512, 512))
                       IN  IF stale THEN WriteFile(fs, a_mp4 \o temp_suffix, Truncated) ELSE fs
    /\ pc = "idle"
    /\ job = NoJob
    /\ hist = [op |-> "init"]
    /\ crashed = FALSE

Next ==
    \/ \E file_path \in DialogPaths \cup {NoPath} : Open(file_path)
    \/ \E size_id \in SizeIds : change_crop_size(size_id)
    \/ \E px \in DragCoords, py \in DragCoords : Drag(<<px, py>>)
    \/ \E confirm \in BOOLEAN, save \in {"ok", "refused", "broken"} :
          overwrite_image(confirm, save)
    \/ \E button \in {"overwrite", "overwrite_next", "cancel"} : overwrite_video(button)
    \/ \E returncode \in {0, 1}, partial \in BOOLEAN : ffmpeg_exits(returncode, partial)
    \/ ffmpeg_missing
    \/ \E move_raises \in BOOLEAN, listing_raises \in BOOLEAN :
          overwrite_video_returns(move_raises, listing_raises)

Spec == Init /\ [][Next]_vars

-----------------------------------------------------------------------------
(* get_next_file on its own: any directory, any current file *)

\* names a directory may hold: videos in both cases, a text file, a dot file
NextNames ==
    { <<"a", ".", "m", "p", "4">>, <<"a", ".", "a", "v", "i">>, <<"B", ".", "m", "o", "v">>,
      <<"b", ".", "t", "x", "t">>, <<"c", ".", "M", "K", "V">>, <<".", "m", "p", "4">> }

InitNext ==
    /\ app = "video"
    /\ \E present \in SUBSET NextNames, current \in NextNames :
          /\ files = [p \in {join(VideoDir, n) : n \in present} |-> Original(512, 512)]
          /\ win = [NewWindow EXCEPT !.path = join(VideoDir, current)]
    /\ pc = "idle"
    /\ job = NoJob
    /\ hist = [op |-> "init"]
    /\ crashed = FALSE

\* a call of get_next_file()
next_file_query(listing_raises) ==
    /\ hist' = [op |-> "get_next_file", listing_raises |-> listing_raises,
                result |-> get_next_file(win.path, files, listing_raises)]
    /\ UNCHANGED <<app, win, files, pc, job, crashed>>

NextNext == \E listing_raises \in BOOLEAN : next_file_query(listing_raises)

SpecNext == InitNext /\ [][NextNext]_vars

-----------------------------------------------------------------------------
(* The properties *)

\* the box of the item fits the surface it was created for
Fits(item) == item.rect[1] <= item.image_rect[1] /\ item.rect[2] <= item.image_rect[2]

\* position p keeps the box of the item inside its surface
Inside(item, p) ==
    /\ 0 <= p[1] /\ p[1] <= Px(item.image_rect[1] - item.rect[1])
    /\ 0 <= p[2] /\ p[2] <= Px(item.image_rect[2] - item.rect[2])

\* C1: for a box that fits the surface, the position change clamp sends every
\* proposed position, negative and far outside ones too, to a position with
\* 0 <= x <= W - w and 0 <= y <= H - h, and the box lies inside the surface in
\* every state.
C1_ClampKeepsBoxInside ==
    (win.crop_item # NoItem /\ Fits(win.crop_item)) =>
        /\ Inside(win.crop_item, win.crop_item.pos)
        /\ \A px \in DragCoords, py \in DragCoords :
              Inside(win.crop_item, itemChange(win.crop_item, <<px, py>>))

\* a drag proposed a position left of and below the 1000 x 800 surface and the
\* 512 x 512 box went to the lower left corner
C1_Witness ==
    /\ win.crop_item # NoItem
    /\ hist.op = "drag"
    /\ hist.value = <<-Px(1500) - 1, Px(1500)>>
    /\ win.crop_item.rect = <<512, 512>>
    /\ win.crop_item.image_rect = <<1000, 800>>
    /\ win.crop_item.pos = <<0, Px(288)>>

\* n is the position coordinate v truncated toward zero
TruncatedTo(v, n) ==
    IF v >= 0 THEN n >= 0 /\ Px(n) <= v /\ v < Px(n + 1)
    ELSE n <= 0 /\ Px(n - 1) < v /\ v <= Px(n)

\* C2: a commit derives a plan whose (x, y) is the box's position, which after a
\* drag is the clamped proposal, truncated toward zero, and whose (width, height)
\* is the selected preset: as the box (x, y, x + w, y + h) of the image commit and
\* as the filter crop=w:h:x:y of the video commit.
C2_PlanIsTruncatedPosition ==
    [][ (hist'.op \in {"overwrite_image", "overwrite_video"} /\ hist'.ran) =>
          LET item == win.crop_item
              w == win.current_crop_size[1]
              h == win.current_crop_size[2]
              x == IF app = "image" THEN hist'.box[1] ELSE job'.cmd.vf[4]
              y == IF app = "image" THEN hist'.box[2] ELSE job'.cmd.vf[5]
          IN  /\ hist.op = "drag" => item.pos = itemChange(item, hist.value)
              /\ TruncatedTo(item.pos[1], x)
              /\ TruncatedTo(item.pos[2], y)
              /\ IF app = "image" THEN hist'.box = <<x, y, x + w, y + h>>
                 ELSE job'.cmd.vf = <<"crop", w, h, x, y>> ]_vars

\* the video commit of a 512 x 512 box at (100.5, 100.5) runs crop=512:512:100:100
C2_Witness ==
    /\ pc = "running"
    /\ hist.op = "overwrite_video"
    /\ win.crop_item.pos = <<Px(100) + 1, Px(100) + 1>>
    /\ job.cmd.vf = <<"crop", 512, 512, 100, 100>>

\* C3: when ffmpeg exited with a code other than 0, the video commit returns with
\* the original path holding what it held before the call and with no file at the
\* temporary path.
C3_FailedToolLeavesOriginal ==
    [][ (pc = "returned" /\ job.returncode # 0 /\ pc' = "idle") =>
          /\ Exists(files', win.path)
          /\ files'[win.path] = job.before
          /\ ~Exists(files', job.temp_output) ]_vars

\* a commit ended after ffmpeg failed and left a partial output, which is gone
C3_Witness ==
    /\ hist.op = "overwrite_video_done"
    /\ hist.result = "failed"
    /\ hist.returncode # 0
    /\ hist.had_temp
    /\ ~Exists(files, hist.cmd.output)
    /\ files[hist.cmd.i] = Original(1000, 800)

\* C4: when ffmpeg exited with code 0 and the replace was made, the original path
\* holds what ffmpeg wrote to the temporary path, the temporary path is gone and
\* no other path changed (a move, not a copy).
C4_SuccessMovesTempOverOriginal ==
    [][ (pc = "returned" /\ job.returncode = 0
            /\ hist'.op = "overwrite_video_done" /\ hist'.result = "success") =>
          /\ files'[win.path] = files[job.temp_output]
          /\ DOMAIN files' = (DOMAIN files) \ {job.temp_output}
          /\ \A p \in (DOMAIN files') \ {win.path} : files'[p] = files[p] ]_vars

\* a commit ended in success: a.mp4 is the 512 x 512 crop at (100, 100)
C4_Witness ==
    /\ hist.op = "overwrite_video_done"
    /\ hist.result = "success"
    /\ hist.cmd.i = a_mp4
    /\ files[a_mp4] = [kind |-> "media", w |-> 512, h |-> 512, left |-> 488, upper |-> 100]
    /\ ~Exists(files, temp_output(a_mp4))

\* C5: during a video commit ffmpeg's output path differs from the source path,
\* and the content at the current path changes only in the step that follows an
\* exit of ffmpeg with code 0.
C5_OriginalChangesOnlyAfterSuccess ==
    /\ [](pc # "idle" => job.cmd.output # job.cmd.i)
    /\ [][ (app = "video" /\ win.path # NoPath /\ Exists(files, win.path)
              /\ (~Exists(files', win.path) \/ files'[win.path] # files[win.path])) =>
             (pc = "returned" /\ job.returncode = 0) ]_vars

\* the original was changed: the commit had exit code 0 and a.mp4 holds another crop
C5_Witness ==
    /\ hist.op = "overwrite_video_done"
    /\ hist.returncode = 0
    /\ hist.result = "success"
    /\ hist.cmd.i = a_mp4
    /\ hist.cmd.output # a_mp4
    /\ files[a_mp4].left = 100
    /\ files[a_mp4].upper = 0

\* the directory entries with a video extension, in any case
VideoEntries == {n \in listdir(files, dirname(win.path)) : Lower(splitext_ext(n)) \in extensions}

\* C6: get_next_file returns the full path of the entry that follows the current
\* file's name among the directory entries with extension .mp4, .mkv, .avi, .mov
\* or .webm in any case, in lexicographic order; it returns nothing when the
\* current file is the last, when its name is not among them, or when the listing
\* fails.
C6_NextFileFollowsInOrder ==
    hist.op = "get_next_file" =>
        LET current == basename(win.path)
            later == {n \in VideoEntries : StrLess(current, n)}
        IN  IF hist.listing_raises \/ current \notin VideoEntries \/ later = {}
            THEN hist.result = NoPath
            ELSE \E n \in later :
                    /\ \A m \in later \ {n} : StrLess(n, m)
                    /\ hist.result = join(dirname(win.path), n)

\* after a.mp4 comes c.MKV: b.txt is passed over, the upper case extension counts
C6_Witness ==
    /\ hist.op = "get_next_file"
    /\ win.path = a_mp4
    /\ DOMAIN files = {a_mp4, b_txt, c_MKV}
    /\ hist.result = c_MKV

\* C7: an image commit that fails, also one that fails while the cropped picture
\* is written to the path, leaves the file at the path with the bytes it had.
C7_FailedImageCommitLeavesFile ==
    [][ (hist'.op = "overwrite_image" /\ hist'.ran /\ ~hist'.ok) =>
          files'[win.path] = files[win.path] ]_vars

\* C8: after a successful image commit with plan (x, y, width, height) the file at
\* the same path holds the width x height picture at (x, y) of its input, and the
\* window has reloaded it: the surface is width x height and a new box is at (0, 0).
C8_CommittedImageIsTheBox ==
    (hist.op = "overwrite_image" /\ hist.ran /\ hist.ok) =>
        LET w == win.current_crop_size[1]
            h == win.current_crop_size[2]
        IN  /\ TruncatedTo(hist.pos[1], files[win.path].left)
            /\ TruncatedTo(hist.pos[2], files[win.path].upper)
            /\ files[win.path] = [kind |-> "media", w |-> w, h |-> h,
                                  left |-> hist.box[1], upper |-> hist.box[2]]
            /\ win.pixmap_item = [st |-> "live", w |-> w, h |-> h]
            /\ win.crop_item # NoItem
            /\ win.crop_item.rect = <<w, h>>
            /\ win.crop_item.pos = <<0, 0>>
            /\ win.scene = [pixmaps |-> 1, crops |-> 1]

\* the 512 x 512 box at (100.5, 100.5) was committed: the file is that crop
C8_Witness ==
    /\ hist.op = "overwrite_image"
    /\ hist.ran
    /\ hist.ok
    /\ hist.pos = <<Px(100) + 1, Px(100) + 1>>
    /\ files[p_bmp] = [kind |-> "media", w |-> 512, h |-> 512, left |-> 100, upper |-> 100]
    /\ win.crop_item.pos = <<0, 0>>

\* C9: after a load and after a preset selection with media loaded (a decoded
\* picture or frame), the box is a new one at the position the clamp gives for
\* (0, 0) with the selected preset and the loaded surface.
C9_NewBoxAtClampedOrigin ==
    (hist.op \in {"open", "change_crop_size"} /\ win.crop_item # NoItem
        /\ win.pixmap_item.w > 0) =>
        /\ win.crop_item.rect = win.current_crop_size
        /\ win.crop_item.image_rect = <<win.pixmap_item.w, win.pixmap_item.h>>
        /\ win.crop_item.pos = itemChange(win.crop_item, <<0, 0>>)

\* the valid positions among the proposed coordinates and the two ends of each axis
ValidPositions(item) ==
    {v \in (DragCoords \cup {0, Px(item.image_rect[1] - item.rect[1])})
           \X (DragCoords \cup {0, Px(item.image_rect[2] - item.rect[2])}) : Inside(item, v)}

\* C10: for a box that fits the surface, proposing a valid position returns that
\* position, and proposing it again to the moved box returns it again.
C10_ClampKeepsValidPositions ==
    (win.crop_item # NoItem /\ Fits(win.crop_item)) =>
        \A v \in ValidPositions(win.crop_item) :
            /\ itemChange(win.crop_item, v) = v
            /\ setPos(setPos(win.crop_item, v), v).pos = v

\* a drag proposed the valid (488, 100.5) on the 1000 x 800 surface and the
\* 512 x 512 box is there
C10_Witness ==
    /\ win.crop_item # NoItem
    /\ hist.op = "drag"
    /\ hist.value = <<Px(488), Px(100) + 1>>
    /\ win.crop_item.rect = <<512, 512>>
    /\ win.crop_item.image_rect = <<1000, 800>>
    /\ win.crop_item.pos = hist.value

\* C11: every crop plan a commit derives, the box overwrite_image cropped a decoded
\* picture with and the crop filter of overwrite_video, has x >= 0, y >= 0,
\* width > 0 and height > 0, for every surface and every preset, the presets larger
\* than the surface too.
C11_PlanIsNonNegative ==
    /\ (hist.op = "overwrite_image" /\ hist.ran /\ hist.ok) =>
          /\ hist.box[1] >= 0 /\ hist.box[2] >= 0
          /\ hist.box[3] - hist.box[1] > 0 /\ hist.box[4] - hist.box[2] > 0
    /\ job # NoJob =>
          /\ job.cmd.vf[4] >= 0 /\ job.cmd.vf[5] >= 0
          /\ job.cmd.vf[2] > 0 /\ job.cmd.vf[3] > 0

\* C12: when a video commit ends without success (ffmpeg exited with another code
\* than 0, ffmpeg could not be started, or the move raised), no file is at the
\* temporary path afterwards, even if one was there before the call, and the
\* original file is the one it was before the call.
C12_FailureRemovesTemp ==
    [][(pc # "idle" /\ pc' = "idle" /\ hist'.result # "success") =>
          /\ ~Exists(files', job.temp_output)
          /\ files'[win.path] = job.before]_vars

\* C13: a load of a file that does not decode, made while a surface is loaded,
\* leaves the current path, the surface and the region as they were, and changes
\* no file.
C13_FailedLoadKeepsSession ==
    [][(hist'.op = "open" /\ hist'.file_path # NoPath
            /\ ~Decodable(files, hist'.file_path) /\ win.crop_item # NoItem) =>
          /\ win'.path = win.path
          /\ win'.pixmap_item = win.pixmap_item
          /\ win'.crop_item = win.crop_item
          /\ files' = files]_vars

\* no surface was ever loaded
NoMedia == win.pixmap_item = NoItem

\* C14: while no media has been loaded, a preset selection and a commit create no
\* region, derive no plan, start no tool and modify no file, and the session stays
\* without media: only the selected preset may change.
C14_NoMediaOnlyLoads ==
    [][(NoMedia /\ hist'.op \in {"change_crop_size", "overwrite_image", "overwrite_video"}) =>
          /\ win'.crop_item = NoItem
          /\ win'.pixmap_item = NoItem
          /\ win'.path = win.path
          /\ win'.scene = EmptyScene
          /\ files' = files
          /\ pc' = "idle"
          /\ job' = NoJob
          /\ hist'.op # "change_crop_size" => ~hist'.ran]_vars

\* before any load the 768 x 768 preset was selected and then a video commit was
\* issued: it returned at its guard, and there is still no surface and no region
C14_Witness ==
    /\ NoMedia
    /\ win.path = NoPath
    /\ win.current_crop_size = <<768, 768>>
    /\ hist.op = "overwrite_video"
    /\ ~hist.ran
    /\ win.crop_item = NoItem
    /\ pc = "idle"

\* C15: in every state the scene holds at most one region, and it holds one exactly
\* when crop_item names one: every load and every preset selection takes the old
\* region out before it adds the new one.
C15_AtMostOneRegion ==
    /\ win.scene.crops <= 1
    /\ win.scene.crops = IF win.crop_item # NoItem THEN 1 ELSE 0
    /\ win.crop_item # NoItem => win.crop_item.in_scene

\* a preset was selected while a region was in the scene, and the scene holds the
\* one new 768 x 768 region
C15_Witness ==
    /\ hist.op = "change_crop_size"
    /\ win.crop_item # NoItem
    /\ win.crop_item.rect = <<768, 768>>
    /\ win.scene.crops = 1

\* C16: a video commit that does not succeed changes nothing of the session: from
\* the click to the return the path, the surface, the selected preset and the
\* position of the region are the same, and the handler returns with no other call
\* in progress (no retry, no load of another file).
C16_FailedCommitKeepsSession ==
    [][LET ends == pc # "idle" /\ pc' = "idle"
       IN  ((pc # "idle" \/ pc' # "idle") /\ ~(ends /\ hist'.result = "success")) =>
              /\ win' = win
              /\ ends => (job' = NoJob /\ crashed' = crashed)]_vars

\* ffmpeg exited with 1 for a.mp4 and the 512 x 512 region is still at (488, 100.5)
C16_Witness ==
    /\ hist.op = "overwrite_video_done"
    /\ hist.result = "failed"
    /\ hist.returncode = 1
    /\ win.path = a_mp4
    /\ win.current_crop_size = <<512, 512>>
    /\ win.crop_item # NoItem
    /\ win.crop_item.pos = <<Px(488), Px(100) + 1>>
    /\ pc = "idle"

\* C17: during a video commit the path changes only when the handler returns after
\* ffmpeg exited with 0 and the temporary file was moved over the original; the
\* next file is then looked up in the directory as it is after the move, and only
\* for "Overwrite & Next"; the session loads the path found, or the current path
\* again when none was found or the button was "Overwrite".
C17_AdvanceOnlyAfterReplace ==
    [][(pc # "idle" \/ pc' # "idle") =>
          IF pc = "returned" /\ pc' = "idle" /\ hist'.result = "success"
          THEN LET found == hist'.next_file
                   target == IF found # NoPath THEN found ELSE win.path
               IN  /\ job.returncode = 0
                   /\ files' = RemoveFile(WriteFile(files, win.path, files[job.temp_output]),
                                          job.temp_output)
                   /\ found \in {NoPath, get_next_file(win.path, files', FALSE)}
                   /\ job.button # "overwrite_next" => found = NoPath
                   /\ win' = load_video(win, target, files')
                   /\ win'.path = target
          ELSE win'.path = win.path]_vars

\* "Overwrite & Next" on a.mp4: the temporary file replaced a.mp4, the lookup found
\* c.MKV and the session shows c.MKV
C17_Witness ==
    /\ hist.op = "overwrite_video_done"
    /\ hist.result = "success"
    /\ hist.button = "overwrite_next"
    /\ hist.cmd.i = a_mp4
    /\ hist.next_file = c_MKV
    /\ win.path = c_MKV
    /\ win.crop_item # NoItem
    /\ win.crop_item.image_rect = <<512, 512>>
    /\ ~Exists(files, a_mp4 \o temp_suffix)
    /\ files[a_mp4].w = 768

\* a handler the operator's input starts
UserInput ==
    \/ \E file_path \in DialogPaths \cup {NoPath} : Open(file_path)
    \/ \E size_id \in SizeIds : change_crop_size(size_id)
    \/ \E px \in DragCoords, py \in DragCoords : Drag(<<px, py>>)
    \/ \E button \in {"overwrite", "overwrite_next", "cancel"} : overwrite_video(button)

\* C18: while ffmpeg is running the interactive thread can process input: some
\* handler of the operator's input can run.
C18_InputProcessedWhileToolRuns ==
    pc = "running" => ENABLED UserInput

\* C19: in the video session a region exists only on the first frame of the file at
\* the current path: the file decodes, the surface is alive and both the surface and
\* the region's bounds have the file's dimensions; a commit in progress crops the
\* current path with that region.  After a load that read no frame there is no
\* region, whatever preset is selected.
C19_RegionIsOnCurrentVideo ==
    app = "video" =>
        /\ win.crop_item # NoItem =>
              /\ Decodable(files, win.path)
              /\ win.pixmap_item = [st |-> "live", w |-> files[win.path].w,
                                                   h |-> files[win.path].h]
              /\ win.crop_item.image_rect = <<files[win.path].w, files[win.path].h>>
        /\ job # NoJob =>
              /\ win.crop_item # NoItem
              /\ job.cmd.i = win.path
              /\ <<job.cmd.vf[2], job.cmd.vf[3]>> = win.crop_item.rect

\* b.txt was picked while a video was loaded and no frame was read; then a preset
\* was selected: there is no region
C19_Witness ==
    /\ app = "video"
    /\ hist.op = "change_crop_size"
    /\ win.path = b_txt
    /\ win.pixmap_item.st = "deleted"
    /\ win.current_crop_size = <<768, 768>>
    /\ win.crop_item = NoItem

\* C20: an image commit that succeeds with a preset that fits reloads a surface of
\* exactly the preset's size; on a surface of the preset's size the region is at
\* (0, 0) and every drag leaves it there; a commit on such a surface crops the
\* box (0, 0, w, h) and leaves the picture's size as it was.
C20_SamePresetIsFixedPoint ==
    /\ [](app = "image" /\ win.crop_item # NoItem
            /\ win.crop_item.rect = win.crop_item.image_rect =>
              /\ win.crop_item.pos = <<0, 0>>
              /\ \A px \in DragCoords, py \in DragCoords :
                    itemChange(win.crop_item, <<px, py>>) = <<0, 0>>)
    /\ [][(hist'.op = "overwrite_image" /\ hist'.ran /\ hist'.ok /\ Fits(win.crop_item)) =>
            /\ <<files'[win.path].w, files'[win.path].h>> = win.current_crop_size
            /\ <<win'.pixmap_item.w, win'.pixmap_item.h>> = win.current_crop_size
            /\ win'.crop_item.rect = win.current_crop_size
            /\ win'.crop_item.image_rect = win.current_crop_size
            /\ win.crop_item.image_rect = win.current_crop_size =>
                  /\ hist'.box = <<0, 0, win.current_crop_size[1], win.current_crop_size[2]>>
                  /\ files'[win.path].w = files[win.path].w
                  /\ files'[win.path].h = files[win.path].h]_vars

\* the picture was cropped to 512 x 512 and then committed again with the same
\* preset: the box was (0, 0, 512, 512) and the picture is still 512 x 512
C20_Witness ==
    /\ hist.op = "overwrite_image"
    /\ hist.ran
    /\ hist.ok
    /\ hist.surface = <<512, 512>>
    /\ hist.box = <<0, 0, 512, 512>>
    /\ win.current_crop_size = <<512, 512>>
    /\ win.pixmap_item.w = 512
    /\ win.pixmap_item.h = 512
    /\ win.crop_item.pos = <<0, 0>>
    /\ files[p_bmp].w = 512
    /\ files[p_bmp].h = 512

=============================================================================
